---- MODULE Spec2Model ----
(***************************************************************************)
(* Model of scripts/blender_import_vrm_pose.py: one run of main(), which   *)
(* loads a VRM pose JSON document, applies the optional scene rotation to  *)
(* the object named ARMATURE_NAME and then writes the per-bone quaternions *)
(* into the armature's pose bones.                                         *)
(*                                                                         *)
(* JSON values are modelled by records: a number n is Num(n), a string is  *)
(* Str.  The host (bpy) is modelled by the few fields the script reads or  *)
(* writes: the type of the object of that name, its pose bones with their  *)
(* rotation_quaternion, its rotation_euler and the interaction mode.       *)
(* Everything the script prints or asks the host to do is appended to      *)
(* `events`, in order.                                                     *)
(***************************************************************************)
EXTENDS Integers, Sequences, FiniteSets, TLC

VARIABLES pc, pose_data, objType, rigBones, rotation_quaternion,
          rotation_euler, mode, boneMap, idx, applied_count, skipped_count,
          applyResult, exc, mainExit, events, writes, malformed,
          initial_quaternion

vars == <<pc, pose_data, objType, rigBones, rotation_quaternion,
          rotation_euler, mode, boneMap, idx, applied_count, skipped_count,
          applyResult, exc, mainExit, events, writes, malformed,
          initial_quaternion>>

\* Largest number of entries of vrmPose in a document of the model.
MaxEntries == 2

\* ------------------------------------------------------------------------
\* The static bone table (lines 29-95), in the groups the source gives it.
\* ------------------------------------------------------------------------
CoreBones ==
  [n \in {"hips", "spine", "chest", "upperChest", "neck", "head"} |->
     CASE n = "hips" -> "Hips"
       [] n = "spine" -> "Spine"
       [] n = "chest" -> "Chest"
       [] n = "upperChest" -> "UpperChest"
       [] n = "neck" -> "Neck"
       [] n = "head" -> "Head"]

CoreBonesDup ==
  [n \in {"hips", "spine", "chest", "upperChest", "neck", "head"} |->
     CASE n = "hips" -> "Hips"
       [] n = "spine" -> "Spine"
       [] n = "chest" -> "Spine"
       [] n = "upperChest" -> "UpperChest"
       [] n = "neck" -> "Neck"
       [] n = "head" -> "Head"]

ArmBones ==
  [n \in {"leftShoulder", "leftUpperArm", "leftLowerArm", "leftHand",
          "rightShoulder", "rightUpperArm", "rightLowerArm", "rightHand"} |->
     CASE n = "leftShoulder" -> "LeftShoulder"
       [] n = "leftUpperArm" -> "LeftUpperArm"
       [] n = "leftLowerArm" -> "LeftLowerArm"
       [] n = "leftHand" -> "LeftHand"
       [] n = "rightShoulder" -> "RightShoulder"
       [] n = "rightUpperArm" -> "RightUpperArm"
       [] n = "rightLowerArm" -> "RightLowerArm"
       [] n = "rightHand" -> "RightHand"]

LegBones ==
  [n \in {"leftUpperLeg", "leftLowerLeg", "leftFoot", "leftToes",
          "rightUpperLeg", "rightLowerLeg", "rightFoot", "rightToes"} |->
     CASE n = "leftUpperLeg" -> "LeftUpperLeg"
       [] n = "leftLowerLeg" -> "LeftLowerLeg"
       [] n = "leftFoot" -> "LeftFoot"
       [] n = "leftToes" -> "LeftToes"
       [] n = "rightUpperLeg" -> "RightUpperLeg"
       [] n = "rightLowerLeg" -> "RightLowerLeg"
       [] n = "rightFoot" -> "RightFoot"
       [] n = "rightToes" -> "RightToes"]

LeftFingerBones ==
  [n \in {"leftThumbProximal", "leftThumbIntermediate", "leftThumbDistal",
          "leftIndexProximal", "leftIndexIntermediate", "leftIndexDistal",
          "leftMiddleProximal", "leftMiddleIntermediate", "leftMiddleDistal",
          "leftRingProximal", "leftRingIntermediate", "leftRingDistal",
          "leftLittleProximal", "leftLittleIntermediate",
          "leftLittleDistal"} |->
     CASE n = "leftThumbProximal" -> "LeftThumbProximal"
       [] n = "leftThumbIntermediate" -> "LeftThumbIntermediate"
       [] n = "leftThumbDistal" -> "LeftThumbDistal"
       [] n = "leftIndexProximal" -> "LeftIndexProximal"
       [] n = "leftIndexIntermediate" -> "LeftIndexIntermediate"
       [] n = "leftIndexDistal" -> "LeftIndexDistal"
       [] n = "leftMiddleProximal" -> "LeftMiddleProximal"
       [] n = "leftMiddleIntermediate" -> "LeftMiddleIntermediate"
       [] n = "leftMiddleDistal" -> "LeftMiddleDistal"
       [] n = "leftRingProximal" -> "LeftRingProximal"
       [] n = "leftRingIntermediate" -> "LeftRingIntermediate"
       [] n = "leftRingDistal" -> "LeftRingDistal"
       [] n = "leftLittleProximal" -> "LeftLittleProximal"
       [] n = "leftLittleIntermediate" -> "LeftLittleIntermediate"
       [] n = "leftLittleDistal" -> "LeftLittleDistal"]

RightFingerBones ==
  [n \in {"rightThumbProximal", "rightThumbIntermediate", "rightThumbDistal",
          "rightIndexProximal", "rightIndexIntermediate", "rightIndexDistal",
          "rightMiddleProximal", "rightMiddleIntermediate",
          "rightMiddleDistal", "rightRingProximal", "rightRingIntermediate",
          "rightRingDistal", "rightLittleProximal", "rightLittleIntermediate",
          "rightLittleDistal"} |->
     CASE n = "rightThumbProximal" -> "RightThumbProximal"
       [] n = "rightThumbIntermediate" -> "RightThumbIntermediate"
       [] n = "rightThumbDistal" -> "RightThumbDistal"
       [] n = "rightIndexProximal" -> "RightIndexProximal"
       [] n = "rightIndexIntermediate" -> "RightIndexIntermediate"
       [] n = "rightIndexDistal" -> "RightIndexDistal"
       [] n = "rightMiddleProximal" -> "RightMiddleProximal"
       [] n = "rightMiddleIntermediate" -> "RightMiddleIntermediate"
       [] n = "rightMiddleDistal" -> "RightMiddleDistal"
       [] n = "rightRingProximal" -> "RightRingProximal"
       [] n = "rightRingIntermediate" -> "RightRingIntermediate"
       [] n = "rightRingDistal" -> "RightRingDistal"
       [] n = "rightLittleProximal" -> "RightLittleProximal"
       [] n = "rightLittleIntermediate" -> "RightLittleIntermediate"
       [] n = "rightLittleDistal" -> "RightLittleDistal"]

\* The table with "chest" sent to the same rig bone as "spine".
VRM_TO_BLENDER_BONES_Dup ==
  CoreBonesDup @@ ArmBones @@ LegBones @@ LeftFingerBones @@ RightFingerBones

VRM_TO_BLENDER_BONES ==
  CoreBones @@ ArmBones @@ LegBones @@ LeftFingerBones @@ RightFingerBones

\* ------------------------------------------------------------------------
\* JSON values and the documents json.load can return (lines 98-102).
\* ------------------------------------------------------------------------
Num(n) == [t |-> "num", v |-> n]
Str == [t |-> "str", v |-> 0]

\* The "rotation" member of a bone entry: missing, an array, or a non-zero
\* number (a value that has no len()).
RotAbsent == [kind |-> "absent", val |-> <<>>]
RotArray(s) == [kind |-> "array", val |-> s]
RotScalar == [kind |-> "scalar", val |-> <<>>]

\* A bone entry's value: an object with the rotation member, or not an object.
BoneDict(r) == [kind |-> "dict", rotation |-> r]
BoneNotDict == [kind |-> "nondict", rotation |-> RotAbsent]

BoneDataSet ==
  { BoneNotDict,
    BoneDict(RotAbsent),
    BoneDict(RotScalar),
    BoneDict(RotArray(<<Num(1), Num(2), Num(3)>>)),
    BoneDict(RotArray(<<Num(1), Num(2), Num(3), Num(4)>>)),
    BoneDict(RotArray(<<Num(1), Str, Num(3), Num(4)>>)),
    BoneDict(RotArray(<<Num(1), Num(2), Num(3), Num(4), Num(5)>>)) }

\* Canonical names used by the documents: two of the table, one not in it.
PoseNames == {"hips", "leftHand", "tail"}

\* Names of pose bones an armature of the model may have.
RigBoneNames == {"Hips", "LeftHand"}

RECURSIVE SeqsUpTo(_, _)
\* Sequences of at most n entries with pairwise distinct names: the items of
\* a parsed JSON object, whose keys are unique, in document order.
SeqsUpTo(n, names) ==
  IF n = 0 THEN {<<>>}
  ELSE {<<>>} \cup
       UNION { { <<[name |-> nm, data |-> d]>> \o rest :
                   rest \in SeqsUpTo(n - 1, names \ {nm}), d \in BoneDataSet } :
               nm \in names }

\* The "vrmPose" member: missing, null, an object, or a non-empty non-object.
PoseSections ==
  { [kind |-> "absent", entries |-> <<>>],
    [kind |-> "null", entries |-> <<>>],
    [kind |-> "nondict", entries |-> <<>>] }
  \cup { [kind |-> "dict", entries |-> e] : e \in SeqsUpTo(MaxEntries, PoseNames) }

NoAxes == [a \in {} |-> Num(0)]

\* The "sceneRotation" member: missing, an object with some of x, y, z, or a
\* non-empty non-object.
SceneRotations ==
  { [kind |-> "absent", val |-> NoAxes],
    [kind |-> "dict", val |-> NoAxes],
    [kind |-> "dict", val |-> [a \in {"x", "y", "z"} |->
                                 IF a = "x" THEN Num(90) ELSE Num(0)]],
    [kind |-> "dict", val |-> [a \in {"y"} |-> Num(45)]],
    [kind |-> "dict", val |-> [a \in {"x"} |-> Str]],
    [kind |-> "nondict", val |-> NoAxes] }

NonObjectDocument ==
  [kind |-> "nonobject",
   vrmPose |-> [kind |-> "absent", entries |-> <<>>],
   sceneRotation |-> [kind |-> "absent", val |-> NoAxes]]

Documents ==
  { NonObjectDocument }
  \cup { [kind |-> "object", vrmPose |-> vp, sceneRotation |-> sr] :
           vp \in PoseSections, sr \in SceneRotations }

\* ------------------------------------------------------------------------
\* Pure pieces of the script.
\* ------------------------------------------------------------------------
RECURSIVE GCD(_, _)
GCD(a, b) == IF b = 0 THEN a ELSE GCD(b, a % b)

\* math.radians(d) = d * pi / 180, kept exact as the fraction <<p, q>> of pi.
Radians(d) == <<d \div GCD(d, 180), 180 \div GCD(d, 180)>>

\* scene_rotation.get(axis, 0)
AxisValue(sr, axis) == IF axis \in DOMAIN sr.val THEN sr.val[axis] ELSE Num(0)

\* `not scene_rotation` (line 173)
SceneRotationEmptyNever(sr) == FALSE

SceneRotationEmpty(sr) ==
  sr.kind = "absent" \/ (sr.kind = "dict" /\ DOMAIN sr.val = {})

\* `not vrm_pose` (line 124)
PoseEmptyOnlyIfMissing(vp) == vp.kind \in {"absent", "null"}

PoseEmpty(vp) ==
  vp.kind \in {"absent", "null"} \/ (vp.kind = "dict" /\ vp.entries = <<>>)

\* Quaternion((rotation[3], rotation[0], rotation[1], rotation[2])), line 154
ReorderKeepingOrder(r) == <<r[1].v, r[2].v, r[3].v, r[4].v>>

Reorder(r) == <<r[4].v, r[1].v, r[2].v, r[3].v>>

\* VRM_TO_BLENDER_BONES.get(name) is truthy (lines 134-136)
Mapped(map, name) == name \in DOMAIN map /\ map[name] # ""

\* What one iteration of the loop does with an entry (lines 134-159):
\*   "unmapped"  no table entry for the name
\*   "nobone"    the armature has no pose bone of the mapped name
\*   "raise"     an exception leaves the loop (ill-typed entry)
\*   "malformed" rotation missing or not of length 4: plain continue
\*   "apply"     the quaternion is written
Outcome(map, bones, e) ==
  IF ~Mapped(map, e.name) THEN "unmapped"
  ELSE IF map[e.name] \notin bones THEN "nobone"
  ELSE IF e.data.kind # "dict" THEN "raise"
  ELSE IF e.data.rotation.kind = "absent" THEN "malformed"
  ELSE IF e.data.rotation.kind = "scalar" THEN "raise"
  ELSE IF Len(e.data.rotation.val) # 4 THEN "malformed"
  ELSE IF \E i \in 1..4 : e.data.rotation.val[i].t # "num" THEN "raise"
  ELSE "apply"

\* skipped_count after an iteration (lines 138, 145)
SkippedAfterUnmappedOnly(o, n) == IF o = "unmapped" THEN n + 1 ELSE n

SkippedAfterAnyContinue(o, n) ==
  IF o \in {"unmapped", "nobone", "malformed"} THEN n + 1 ELSE n

SkippedAfter(o, n) == IF o \in {"unmapped", "nobone"} THEN n + 1 ELSE n

\* applied_count after an iteration (line 159)
AppliedAfterEveryFoundBone(o, n) ==
  IF o \in {"apply", "malformed"} THEN n + 1 ELSE n

AppliedAfter(o, n) == IF o = "apply" THEN n + 1 ELSE n

\* What the loop prints or asks of the host in an iteration.
EntryEvents(o) ==
  CASE o = "unmapped" -> <<"warnUnmapped">>
    [] o = "nobone" -> <<"warnNoBone">>
    [] o = "apply" -> <<"write">>
    [] OTHER -> <<>>

\* What follows the loop (lines 161-165).
FinishEventsNoRefresh == <<"summary">>

FinishEvents == <<"summary", "refresh">>

\* ------------------------------------------------------------------------
\* The host before the run, and the run.
\* ------------------------------------------------------------------------
\* pose_data before load_vrm_pose_json has returned.
NoDocument ==
  [kind |-> "none",
   vrmPose |-> [kind |-> "absent", entries |-> <<>>],
   sceneRotation |-> [kind |-> "absent", val |-> NoAxes]]

\* Rotations (w, x, y, z) a pose bone may have before the run: the rest
\* pose, and the very quaternion a valid entry of the model writes.
PriorQuaternions == {<<1, 0, 0, 0>>, <<4, 1, 2, 3>>}

\* rotation_euler of the object before the run.
PriorEuler == <<Radians(30), Radians(0), Radians(60)>>

Init ==
  /\ pc = "start"
  /\ pose_data = NoDocument
  /\ objType \in {"NONE", "MESH", "ARMATURE"}
  /\ rigBones \in (IF objType = "ARMATURE" THEN SUBSET RigBoneNames ELSE {{}})
  /\ rotation_quaternion \in [rigBones -> PriorQuaternions]
  /\ initial_quaternion = rotation_quaternion
  /\ rotation_euler = PriorEuler
  /\ mode = "OBJECT"
  /\ boneMap = VRM_TO_BLENDER_BONES
  /\ idx = 0
  /\ applied_count = 0
  /\ skipped_count = 0
  /\ applyResult = "none"
  /\ exc = "none"
  /\ mainExit = "running"
  /\ events = <<>>
  /\ writes = [b \in rigBones |-> 0]
  /\ malformed = 0

\* main, lines 198-200: the file is read and parsed.
LoadOk ==
  /\ pc = "start"
  /\ \E doc \in Documents : pose_data' = doc
  /\ events' = Append(events, "loaded")
  /\ pc' = "scene"
  /\ UNCHANGED <<objType, rigBones, rotation_quaternion, rotation_euler, mode,
                 boneMap, idx, applied_count, skipped_count, applyResult, exc,
                 mainExit, writes, malformed, initial_quaternion>>

\* main without the return of line 203: the run goes on with no document.
LoadFailGoesOn ==
  /\ pc = "start"
  /\ pose_data' = [NoDocument EXCEPT !.kind = "object"]
  /\ events' = Append(events, "loadError")
  /\ exc' = "load"
  /\ pc' = "scene"
  /\ UNCHANGED <<objType, rigBones, rotation_quaternion, rotation_euler, mode,
                 boneMap, idx, applied_count, skipped_count, applyResult,
                 mainExit, writes, malformed, initial_quaternion>>

\* main, lines 201-203: open or json.load raised; main prints and returns.
LoadFail ==
  /\ pc = "start"
  /\ events' = Append(events, "loadError")
  /\ exc' = "load"
  /\ pc' = "done"
  /\ mainExit' = "returned"
  /\ UNCHANGED <<pose_data, objType, rigBones, rotation_quaternion,
                 rotation_euler, mode, boneMap, idx, applied_count,
                 skipped_count, applyResult, writes, malformed,
                 initial_quaternion>>

\* How apply_scene_rotation ends (lines 172-186): "raise", "noop", "write".
SceneOutcome(doc, ot) ==
  IF doc.kind # "object" THEN "raise"
  ELSE IF SceneRotationEmpty(doc.sceneRotation) THEN "noop"
  ELSE IF ot = "NONE" THEN "noop"
  ELSE IF doc.sceneRotation.kind = "nondict" THEN "raise"
  ELSE IF \E a \in {"x", "y", "z"} : AxisValue(doc.sceneRotation, a).t # "num"
       THEN "raise"
  ELSE "write"

\* main, lines 206-207, and the whole of apply_scene_rotation.
ApplySceneRotation ==
  /\ pc = "scene"
  /\ LET o == SceneOutcome(pose_data, objType)
         sr == pose_data.sceneRotation
     IN /\ rotation_euler' =
             IF o = "write"
             THEN <<Radians(AxisValue(sr, "x").v), Radians(AxisValue(sr, "y").v),
                    Radians(AxisValue(sr, "z").v)>>
             ELSE rotation_euler
        /\ events' = IF o = "write" THEN Append(events, "euler") ELSE events
        /\ exc' = IF o = "raise" THEN "scene" ELSE exc
        /\ mainExit' = IF o = "raise" THEN "propagated" ELSE mainExit
        /\ pc' = IF o = "raise" THEN "done" ELSE "apply"
  /\ UNCHANGED <<pose_data, objType, rigBones, rotation_quaternion, mode,
                 boneMap, idx, applied_count, skipped_count, applyResult,
                 writes, malformed, initial_quaternion>>

\* How apply_vrm_pose_to_armature gets to its loop (lines 109-132):
\*   "noobject", "nottype"  return False before anything is touched
\*   "nopose"               return False after pose mode was entered
\*   "raise"                pose_data or vrm_pose is not an object
\*   "loop"                 the loop over vrm_pose.items() starts
EnterOutcome(doc, ot) ==
  IF ot = "NONE" THEN "noobject"
  ELSE IF ot # "ARMATURE" THEN "nottype"
  ELSE IF doc.kind # "object" THEN "raise"
  ELSE IF PoseEmpty(doc.vrmPose) THEN "nopose"
  ELSE IF doc.vrmPose.kind = "nondict" THEN "raise"
  ELSE "loop"

\* main, lines 210-211, and apply_vrm_pose_to_armature up to the loop.
ApplyEnter ==
  /\ pc = "apply"
  /\ LET o == EnterOutcome(pose_data, objType)
         posed == o \notin {"noobject", "nottype"}
     IN /\ mode' = IF posed THEN "POSE" ELSE mode
        /\ events' = IF posed THEN Append(events, "poseMode") ELSE events
        /\ applyResult' = CASE o = "loop" -> applyResult
                            [] o = "raise" -> "raised"
                            [] OTHER -> "false"
        /\ exc' = IF o = "raise" THEN "apply" ELSE exc
        /\ mainExit' = IF o = "raise" THEN "propagated" ELSE mainExit
        /\ pc' = CASE o = "loop" -> "loop"
                   [] o = "raise" -> "done"
                   [] OTHER -> "report"
        /\ idx' = IF o = "loop" THEN 1 ELSE idx
  /\ applied_count' = 0
  /\ skipped_count' = 0
  /\ UNCHANGED <<pose_data, objType, rigBones, rotation_quaternion,
                 rotation_euler, boneMap, writes, malformed,
                 initial_quaternion>>

\* One iteration of the loop (lines 132-159) on entry number idx.
ProcessEntry ==
  /\ pc = "loop"
  /\ idx <= Len(pose_data.vrmPose.entries)
  /\ LET e == pose_data.vrmPose.entries[idx]
         o == Outcome(boneMap, rigBones, e)
     IN /\ rotation_quaternion' =
             IF o = "apply"
             THEN [rotation_quaternion EXCEPT
                     ![boneMap[e.name]] = Reorder(e.data.rotation.val)]
             ELSE rotation_quaternion
        /\ writes' = IF o = "apply"
                     THEN [writes EXCEPT ![boneMap[e.name]] = @ + 1]
                     ELSE writes
        /\ applied_count' = AppliedAfter(o, applied_count)
        /\ skipped_count' = SkippedAfter(o, skipped_count)
        /\ malformed' = IF o = "malformed" THEN malformed + 1 ELSE malformed
        /\ events' = events \o EntryEvents(o)
        /\ applyResult' = IF o = "raise" THEN "raised" ELSE applyResult
        /\ exc' = IF o = "raise" THEN "apply" ELSE exc
        /\ mainExit' = IF o = "raise" THEN "propagated" ELSE mainExit
        /\ pc' = IF o = "raise" THEN "done" ELSE "loop"
        /\ idx' = IF o = "raise" THEN idx ELSE idx + 1
  /\ UNCHANGED <<pose_data, objType, rigBones, rotation_euler, mode, boneMap,
                 initial_quaternion>>

\* After the last entry (lines 161-167): summary, view update, return True.
ApplyFinish ==
  /\ pc = "loop"
  /\ idx > Len(pose_data.vrmPose.entries)
  /\ events' = events \o FinishEvents
  /\ applyResult' = "true"
  /\ pc' = "report"
  /\ UNCHANGED <<pose_data, objType, rigBones, rotation_quaternion,
                 rotation_euler, mode, boneMap, idx, applied_count,
                 skipped_count, exc, mainExit, writes, malformed,
                 initial_quaternion>>

\* main, lines 213-226: the result of the pose application is printed.
Report ==
  /\ pc = "report"
  /\ events' = Append(events, IF applyResult = "true" THEN "success"
                              ELSE "failed")
  /\ pc' = "done"
  /\ mainExit' = "returned"
  /\ UNCHANGED <<pose_data, objType, rigBones, rotation_quaternion,
                 rotation_euler, mode, boneMap, idx, applied_count,
                 skipped_count, applyResult, exc, writes, malformed,
                 initial_quaternion>>

Next ==
  \/ LoadOk
  \/ LoadFail
  \/ ApplySceneRotation
  \/ ApplyEnter
  \/ ProcessEntry
  \/ ApplyFinish
  \/ Report

Spec == Init /\ [][Next]_vars

\* ------------------------------------------------------------------------
\* Vocabulary of the properties.
\* ------------------------------------------------------------------------
Entries == pose_data.vrmPose.entries

\* The loop is about to process entry number idx.
InLoop == pc = "loop" /\ idx <= Len(Entries)

CurEntry == Entries[idx]

\* The entry's canonical name is in the table and the armature has the bone.
BoneFound(e) == e.name \in DOMAIN boneMap /\ boneMap[e.name] \in rigBones

\* The entry carries a rotation array.
HasArray(e) == e.data.kind = "dict" /\ e.data.rotation.kind = "array"

\* The entry's rotation is an array of exactly four numbers.
IsQuaternion(e) ==
  /\ HasArray(e)
  /\ Len(e.data.rotation.val) = 4
  /\ \A i \in 1..4 : e.data.rotation.val[i].t = "num"

\* The entry's rotation is missing or an array of another length than four.
WrongLength(e) ==
  /\ e.data.kind = "dict"
  /\ \/ e.data.rotation.kind = "absent"
     \/ e.data.rotation.kind = "array" /\ Len(e.data.rotation.val) # 4

\* (x, y, z, w) of the document from the (w, x, y, z) the rig stores.
InverseReorder(q) == <<q[2], q[3], q[4], q[1]>>

\* The numbers of a rotation array, in document order.
Components(r) == [i \in 1..Len(r) |-> r[i].v]

\* Positions of an event in the log.
Pos(ev) == {i \in 1..Len(events) : events[i] = ev}

RECURSIVE SumOver(_, _)
SumOver(f, S) ==
  IF S = {} THEN 0
  ELSE LET b == CHOOSE x \in S : TRUE IN f[b] + SumOver(f, S \ {b})

NoBoneTouched ==
  rotation_quaternion = initial_quaternion /\ \A b \in rigBones : writes[b] = 0

\* ------------------------------------------------------------------------
\* C1: an entry with a mapped name, an existing bone and a rotation of four
\* numbers [x,y,z,w] overwrites the bone's rotation with (w,x,y,z) whatever
\* it was, adds exactly 1 to applied and leaves skipped alone; the stored
\* value reordered back is the original array.  A document with exactly one
\* such entry ends with applied = 1, skipped = 0.
\* ------------------------------------------------------------------------
C1_Step ==
  (InLoop /\ BoneFound(CurEntry) /\ IsQuaternion(CurEntry)) =>
    LET r == CurEntry.data.rotation.val
        b == boneMap[CurEntry.name]
    IN /\ rotation_quaternion'[b] = <<r[4].v, r[1].v, r[2].v, r[3].v>>
       /\ InverseReorder(rotation_quaternion'[b]) = Components(r)
       /\ \A c \in rigBones \ {b} :
            rotation_quaternion'[c] = rotation_quaternion[c]
       /\ applied_count' = applied_count + 1
       /\ skipped_count' = skipped_count

C1_Final ==
  (/\ applyResult = "true"
   /\ Len(Entries) = 1
   /\ BoneFound(Entries[1])
   /\ IsQuaternion(Entries[1])) =>
    (applied_count = 1 /\ skipped_count = 0)

C1_ValidEntryApplied == [][C1_Step /\ C1_Final']_vars

C1_Witness ==
  /\ applyResult = "true"
  /\ Len(Entries) = 1
  /\ BoneFound(Entries[1])
  /\ IsQuaternion(Entries[1])
  /\ applied_count = 1
  /\ rotation_quaternion[boneMap[Entries[1].name]] = <<4, 1, 2, 3>>
  /\ initial_quaternion[boneMap[Entries[1].name]] = <<1, 0, 0, 0>>

\* ------------------------------------------------------------------------
\* C2: an entry whose name is not in the table, or whose mapped bone the
\* rig lacks, adds exactly 1 to skipped, leaves applied and every bone
\* rotation alone, and the loop goes on to the next entry: no exception, no
\* failure result.
\* ------------------------------------------------------------------------
C2_SkippedEntryCounted ==
  [][(InLoop /\ ~BoneFound(CurEntry)) =>
       /\ skipped_count' = skipped_count + 1
       /\ applied_count' = applied_count
       /\ rotation_quaternion' = rotation_quaternion
       /\ writes' = writes
       /\ pc' = "loop"
       /\ idx' = idx + 1
       /\ exc' = "none"
       /\ applyResult' = "none"
       /\ mainExit' = "running"]_vars

C2_Witness ==
  /\ applyResult = "true"
  /\ Len(Entries) = 2
  /\ Entries[1].name \notin DOMAIN boneMap
  /\ Entries[2].name \in DOMAIN boneMap
  /\ ~BoneFound(Entries[2])
  /\ skipped_count = 2
  /\ applied_count = 0

\* ------------------------------------------------------------------------
\* C3 as stated: an entry whose rotation is missing or not of length 4
\* changes neither applied nor skipped nor any bone, and the loop goes on.
\* ------------------------------------------------------------------------
C3_AsStated ==
  [][(InLoop /\ WrongLength(CurEntry)) =>
       /\ skipped_count' = skipped_count
       /\ applied_count' = applied_count
       /\ rotation_quaternion' = rotation_quaternion
       /\ writes' = writes
       /\ pc' = "loop"
       /\ idx' = idx + 1]_vars

\* ------------------------------------------------------------------------
\* C3 amended: an entry with a mapped name and an existing bone whose
\* rotation is missing or not of length 4 changes neither applied nor
\* skipped nor any bone, and the loop goes on to the next entry.
\* ------------------------------------------------------------------------
C3_MalformedUncounted ==
  [][(InLoop /\ BoneFound(CurEntry) /\ WrongLength(CurEntry)) =>
       /\ skipped_count' = skipped_count
       /\ applied_count' = applied_count
       /\ rotation_quaternion' = rotation_quaternion
       /\ writes' = writes
       /\ pc' = "loop"
       /\ idx' = idx + 1
       /\ exc' = "none"
       /\ applyResult' = "none"]_vars

C3_Witness ==
  /\ applyResult = "true"
  /\ Len(Entries) = 2
  /\ \A i \in 1..2 : BoneFound(Entries[i]) /\ WrongLength(Entries[i])
  /\ Entries[1].data.rotation.kind = "absent"
  /\ Entries[2].data.rotation.kind = "array"
  /\ applied_count = 0
  /\ skipped_count = 0
  /\ NoBoneTouched

\* ------------------------------------------------------------------------
\* C4: the pose application returns False exactly when no object has the
\* name, the object is not an armature, or vrmPose is missing or empty; and
\* whenever it returns False no bone rotation has been modified.
\* ------------------------------------------------------------------------
C4_FailureExactly ==
  applyResult # "none" =>
    /\ (applyResult = "false") <=>
         \/ objType = "NONE"
         \/ objType # "ARMATURE"
         \/ pose_data.vrmPose.kind \in {"absent", "null"}
         \/ pose_data.vrmPose.kind = "dict" /\ Len(Entries) = 0
    /\ applyResult = "false" => NoBoneTouched

C4_Witness ==
  /\ applyResult = "false"
  /\ objType = "ARMATURE"
  /\ pose_data.vrmPose.kind = "dict"
  /\ Len(Entries) = 0
  /\ rigBones # {}
  /\ pc = "done"

\* ------------------------------------------------------------------------
\* C5: when loading fails main prints the diagnostic and returns; neither
\* applier runs, so the object's rotation, the mode and every bone rotation
\* are as before and the view is not refreshed.
\* ------------------------------------------------------------------------
C5_LoadFailureAborts ==
  exc = "load" =>
    /\ pc = "done"
    /\ mainExit = "returned"
    /\ events = <<"loadError">>
    /\ rotation_euler = PriorEuler
    /\ mode = "OBJECT"
    /\ NoBoneTouched
    /\ applyResult = "none"

C5_Witness ==
  exc = "load" /\ pc = "done" /\ objType = "ARMATURE" /\ rigBones # {}

\* ------------------------------------------------------------------------
\* C6: an exception raised while the pose is being applied is handled by
\* main: it does not propagate out of main, which terminates normally.
\* ------------------------------------------------------------------------
C6_ApplyExceptionHandled == exc = "apply" => mainExit # "propagated"

\* ------------------------------------------------------------------------
\* C7: with no sceneRotation (or an empty one) the object's Euler rotation
\* is, at every point of the run and after it, what it was before; and only
\* the scene rotation step ever writes it.
\* ------------------------------------------------------------------------
C7_NoScene ==
  (/\ pose_data.kind = "object"
   /\ \/ pose_data.sceneRotation.kind = "absent"
      \/ pose_data.sceneRotation.kind = "dict"
         /\ DOMAIN pose_data.sceneRotation.val = {})
  => rotation_euler = PriorEuler

C7_EulerPreserved ==
  [][C7_NoScene' /\ (rotation_euler' # rotation_euler => pc = "scene")]_vars

C7_Witness ==
  /\ pc = "done"
  /\ pose_data.kind = "object"
  /\ pose_data.sceneRotation.kind = "absent"
  /\ applyResult = "true"
  /\ applied_count = 1
  /\ rotation_euler = PriorEuler

\* ------------------------------------------------------------------------
\* C8: the bone table maps every name it has to a non-empty rig name, no
\* two names to the same one, and no step of a run changes the table.
\* ------------------------------------------------------------------------
TableInjective(m) ==
  /\ \A a \in DOMAIN m : m[a] # ""
  /\ Cardinality({m[a] : a \in DOMAIN m}) = Cardinality(DOMAIN m)

C8_TableInjectiveStatic ==
  [][TableInjective(boneMap) /\ boneMap' = boneMap]_vars

C8_Witness ==
  /\ pc = "done"
  /\ applyResult = "true"
  /\ applied_count = 2
  /\ Cardinality(DOMAIN boneMap) = 52
  /\ Cardinality({boneMap[a] : a \in DOMAIN boneMap}) = 52

\* ------------------------------------------------------------------------
\* C9: after a successful load the effects come in a fixed order: the scene
\* rotation write before pose mode; pose mode before every bone write, and
\* no bone write outside pose mode; in a pose application that returns True
\* exactly one view refresh, after the last bone write; the summary only
\* when all entries have been processed.
\* ------------------------------------------------------------------------
C9_EffectOrder ==
  /\ (events # <<>> /\ exc # "load") => events[1] = "loaded"
  /\ \A i \in Pos("euler") : \A j \in Pos("poseMode") : i < j
  /\ Cardinality(Pos("poseMode")) <= 1
  /\ \A j \in Pos("write") :
       mode = "POSE" /\ \E i \in Pos("poseMode") : i < j
  /\ \A i \in Pos("write") : \A j \in Pos("refresh") : i < j
  /\ Cardinality(Pos("refresh")) = (IF applyResult = "true" THEN 1 ELSE 0)
  /\ \A i \in Pos("summary") :
       /\ idx = Len(Entries) + 1
       /\ \A j \in Pos("write") \cup Pos("warnUnmapped") \cup Pos("warnNoBone") :
            j < i

C9_Witness ==
  /\ pc = "done"
  /\ applyResult = "true"
  /\ Pos("euler") # {}
  /\ Cardinality(Pos("write")) = 2
  /\ Pos("refresh") # {}

\* ------------------------------------------------------------------------
\* C10: in the loop, applied + skipped never exceeds the number of entries
\* processed and an entry moves at most one counter, by 1; when the loop
\* ends, applied + skipped + (entries with a found bone but a rotation not
\* of length 4) is the number of entries, applied is the number of bone
\* writes, no bone was written twice, and the result is True even when
\* applied = 0.
\* ------------------------------------------------------------------------
C10_State ==
  /\ idx >= 1 => applied_count + skipped_count <= idx - 1
  /\ applied_count = SumOver(writes, rigBones)
  /\ \A b \in rigBones : writes[b] <= 1
  /\ applyResult = "true" =>
       applied_count + skipped_count
         + Cardinality({i \in 1..Len(Entries) :
                          BoneFound(Entries[i]) /\ WrongLength(Entries[i])})
       = Len(Entries)

C10_Step ==
  /\ InLoop =>
       \/ applied_count' = applied_count /\ skipped_count' = skipped_count
       \/ applied_count' = applied_count + 1 /\ skipped_count' = skipped_count
       \/ applied_count' = applied_count /\ skipped_count' = skipped_count + 1
  /\ (pc = "loop" /\ ~InLoop) => applyResult' = "true"

C10_Tally == [][C10_Step /\ C10_State']_vars

C10_Witness ==
  /\ applyResult = "true"
  /\ Len(Entries) = 2
  /\ applied_count = 0
  /\ skipped_count = 1
  /\ \E i \in 1..2 : BoneFound(Entries[i]) /\ WrongLength(Entries[i])

====
